---- MODULE Spec2Model ----
(***************************************************************************)
(* Model of the enum-collections crate: the Enumerated key contract, the   *)
(* sparse container EnumMap (Box<[Option<V>]>) and the dense container     *)
(* EnumTable (a raw buffer obtained from alloc and released with dealloc). *)
(***************************************************************************)
EXTENDS Integers, Sequences, FiniteSets, TLC

\* ------------------------------------------------------------------ bounds
\* number of variants of the key enum K
KLen == 2
\* number of EnumTable instances constructed in one run
MaxTables == 2
\* number of V values created in one run (defaults and inserted values)
MaxObjs == 7

\* ------------------------------------------------- Enumerated (key contract)
VariantNames == <<"A", "B", "C", "D", "E", "F">>

\* the declared variants of K, in declaration order
VARIANTS == SubSeq(VariantNames, 1, KLen)

Keys == {VARIANTS[i] : i \in 1..Len(VARIANTS)}

\* Enumerated::position: zero-based declaration index of the variant
position(key) == CHOOSE p \in 0..(Len(VARIANTS) - 1) : VARIANTS[p + 1] = key

\* Enumerated::len: total number of variants
len == Len(VARIANTS)

\* ------------------------------------------------------------------ EnumMap
None == <<>>
Some(v) == <<v>>

\* values of V used as inputs of the EnumMap operations (i32 in the tests)
MapVals == {0, 7, 42}
OptVals == {None} \cup {Some(v) : v \in MapVals}

VARIABLES
    mstate,     \* "uninit" before EnumMap::new(), then "live"
    mvalues,    \* EnumMap.values : Box<[Option<V>]>
    mprev,      \* mvalues before the last operation
    mlast       \* the last operation: [op, key, opt]

mvars == <<mstate, mvalues, mprev, mlast>>

\* K::VARIANTS.iter().map(|_| None).collect::<Vec<_>>().into()
MapNewValuesShort == [i \in 1..(Len(VARIANTS) - 1) |-> None]
MapNewValues == [i \in 1..Len(VARIANTS) |-> None]

\* self.values[key.position()].as_ref()
MapGet(values, key) == values[position(key) + 1]

\* self.values[key.position()] = Some(value)
MapInsertValuesKeep(values, key, value) ==
    IF values[position(key) + 1] = None
    THEN [values EXCEPT ![position(key) + 1] = Some(value)]
    ELSE values
MapInsertValues(values, key, value) ==
    [values EXCEPT ![position(key) + 1] = Some(value)]

\* self.values[key.position()] = None
MapRemoveValuesNoop(values, key) == values
MapRemoveValues(values, key) ==
    [values EXCEPT ![position(key) + 1] = None]

\* IndexMut::index_mut: the slot &mut self.values[key.position()]
index_mut(key) == position(key) + 1

\* map[key] = opt : assignment through the reference index_mut returns
MapIndexWriteValues(values, key, opt) ==
    [values EXCEPT ![index_mut(key)] = opt]

MapInit ==
    /\ mstate = "uninit"
    /\ mvalues = <<>>
    /\ mprev = <<>>
    /\ mlast = [op |-> "none", key |-> VARIANTS[1], opt |-> None]

MapNew ==
    /\ mstate = "uninit"
    /\ mstate' = "live"
    /\ mvalues' = MapNewValues
    /\ mprev' = mvalues
    /\ mlast' = [op |-> "new", key |-> VARIANTS[1], opt |-> None]

MapInsert(key, value) ==
    /\ mstate = "live"
    /\ mvalues' = MapInsertValues(mvalues, key, value)
    /\ mprev' = mvalues
    /\ mlast' = [op |-> "insert", key |-> key, opt |-> Some(value)]
    /\ UNCHANGED mstate

MapRemove(key) ==
    /\ mstate = "live"
    /\ mvalues' = MapRemoveValues(mvalues, key)
    /\ mprev' = mvalues
    /\ mlast' = [op |-> "remove", key |-> key, opt |-> None]
    /\ UNCHANGED mstate

MapIndexWrite(key, opt) ==
    /\ mstate = "live"
    /\ mvalues' = MapIndexWriteValues(mvalues, key, opt)
    /\ mprev' = mvalues
    /\ mlast' = [op |-> "index_write", key |-> key, opt |-> opt]
    /\ UNCHANGED mstate

\* ---------------------------------------------------------------- EnumTable
\* the value types V the table is instantiated with: size_of/align_of of V and
\* of Option<V>, whether V has drop glue, V::default() and the input values
TypeInfo ==
    [u8    |-> [size |-> 1, align |-> 1, optSize |-> 2, optAlign |-> 1,
                needsDrop |-> FALSE, dflt |-> "0",
                vals |-> {"0", "42"}],
     Value |-> [size |-> 24, align |-> 8, optSize |-> 24, optAlign |-> 8,
                needsDrop |-> TRUE, dflt |-> "Non-empty default",
                vals |-> {"Non-empty default", "Hello"}]]

VTypes == DOMAIN TypeInfo

\* the null pointer alloc returns on failure
NULL == 0

\* slot content of memory no V was ever written to
UNINIT == 0

VARIABLES
    tables,        \* the EnumTable instances constructed so far
    heap,          \* the blocks alloc handed out: [layout, releases]
    objs,          \* the V values created so far: [val, drops, t (owning table)]
    garbageDrops,  \* teardowns run on a slot that holds no initialized V
    nullAccess,    \* slot accesses made through a null buffer
    proc,          \* "running", or "aborted" once the process faulted
    tprev,         \* values of the target table before the last operation
    tlast          \* the last operation: [op, t, key, val]

tvars == <<tables, heap, objs, garbageDrops, nullAccess, proc, tprev, tlast>>

vars == <<mstate, mvalues, mprev, mlast,
          tables, heap, objs, garbageDrops, nullAccess, proc, tprev, tlast>>

\* Layout::array::<T>(n) for an element of the given size and alignment
LayoutArray(elemSize, elemAlign, n) == [size |-> elemSize * n, align |-> elemAlign]

\* Layout::array::<V>(K::len()).unwrap() in new()
NewLayout(vt) == LayoutArray(TypeInfo[vt].size, TypeInfo[vt].align, len)

\* Layout::array::<Option<V>>(K::len()).unwrap() in drop()
DropLayout(vt) == LayoutArray(TypeInfo[vt].optSize, TypeInfo[vt].optAlign, len)

\* alloc(layout): a fresh block, or the null pointer when the allocator fails
AllocPtr(h, ok) == IF ok THEN Len(h) + 1 ELSE NULL
AllocHeap(h, layout, ok) ==
    IF ok THEN Append(h, [layout |-> layout, releases |-> <<>>]) ELSE h

\* dealloc(ptr, layout): the block records the layout it was released with
DeallocLeak(h, ptr, layout) == h
Dealloc(h, ptr, layout) ==
    IF ptr = NULL THEN h
    ELSE [h EXCEPT ![ptr].releases = Append(@, layout)]

\* V::default()
VDefault(vt) == TypeInfo[vt].dflt

\* the objects V::default() produces for the first n slots of table t in new()
NewObjs(vt, n, t) == [i \in 1..n |-> [val |-> VDefault(vt), drops |-> 0, t |-> t]]

\* for value in values_array.iter_mut() { *value = V::default() }
FillSkipLast(base, n) == [i \in 1..n |-> IF i < n THEN base + i ELSE UNINIT]
Fill(base, n) == [i \in 1..n |-> base + i]

\* self.values[key.position()] = value : the slot takes the new object
WriteSlotNext(values, key, id) ==
    [values EXCEPT ![((position(key) + 1) % Len(values)) + 1] = id]
WriteSlotFirst(values, key, id) == [values EXCEPT ![1] = id]
WriteSlot(values, key, id) == [values EXCEPT ![position(key) + 1] = id]

\* the assignment tears down the value the slot held, when V has drop glue
DropOld(o, vt, id) ==
    IF TypeInfo[vt].needsDrop /\ id # UNINIT
    THEN [o EXCEPT ![id].drops = @ + 1]
    ELSE o

\* &self.values[key.position()]
get(table, key) == table.values[position(key) + 1]

\* the V a slot reference points at
Val(id) == IF id = UNINIT THEN "uninit" ELSE objs[id].val

TableInit ==
    /\ tables = <<>>
    /\ heap = <<>>
    /\ objs = <<>>
    /\ garbageDrops = 0
    /\ nullAccess = 0
    /\ proc = "running"
    /\ tprev = <<>>
    /\ tlast = [op |-> "none", t |-> 0, key |-> VARIANTS[1], val |-> ""]

\* EnumTable::new(), the whole loop ran
New(vt, allocOk) ==
    LET layout == NewLayout(vt)
        ptr == AllocPtr(heap, allocOk)
    IN  /\ proc = "running"
        /\ Len(tables) < MaxTables
        /\ Len(objs) + len <= MaxObjs
        /\ heap' = AllocHeap(heap, layout, allocOk)
        /\ objs' = objs \o NewObjs(vt, len, Len(tables) + 1)
        /\ garbageDrops' = garbageDrops + (IF TypeInfo[vt].needsDrop THEN len ELSE 0)
        /\ nullAccess' = nullAccess + (IF ptr = NULL THEN len ELSE 0)
        /\ tables' = Append(tables, [state |-> "live", vt |-> vt, ptr |-> ptr,
                                     values |-> Fill(Len(objs), len)])
        /\ tprev' = <<>>
        /\ tlast' = [op |-> "new", t |-> Len(tables) + 1, key |-> VARIANTS[1],
                     val |-> VDefault(vt)]
        /\ UNCHANGED proc

\* EnumTable::new() faulting at slot i: the buffer is null, or the teardown
\* of the uninitialized content of slot i ran into garbage
NewFault(vt, allocOk, i) ==
    LET layout == NewLayout(vt)
        ptr == AllocPtr(heap, allocOk)
    IN  /\ proc = "running"
        /\ Len(tables) < MaxTables
        /\ Len(objs) + len <= MaxObjs
        /\ \/ ptr = NULL /\ i = 1
           \/ ptr # NULL /\ TypeInfo[vt].needsDrop
        /\ heap' = AllocHeap(heap, layout, allocOk)
        /\ objs' = objs \o NewObjs(vt, i, Len(tables) + 1)
        /\ garbageDrops' = garbageDrops + (IF TypeInfo[vt].needsDrop THEN i ELSE 0)
        /\ nullAccess' = nullAccess + (IF ptr = NULL THEN 1 ELSE 0)
        /\ proc' = "aborted"
        /\ tprev' = <<>>
        /\ tlast' = [op |-> "new_fault", t |-> 0, key |-> VARIANTS[i],
                     val |-> VDefault(vt)]
        /\ UNCHANGED tables

\* EnumTable::insert(key, value)
Insert(t, key, value) ==
    LET tab == tables[t]
        old == tab.values[position(key) + 1]
        id == Len(objs) + 1
    IN  /\ proc = "running"
        /\ tab.state = "live"
        /\ Len(objs) < MaxObjs
        /\ value \in TypeInfo[tab.vt].vals
        /\ objs' = DropOld(Append(objs, [val |-> value, drops |-> 0, t |-> t]), tab.vt, old)
        /\ tables' = [tables EXCEPT ![t].values = WriteSlot(@, key, id)]
        /\ nullAccess' = nullAccess + (IF tab.ptr = NULL THEN 1 ELSE 0)
        /\ tprev' = tab.values
        /\ tlast' = [op |-> "insert", t |-> t, key |-> key, val |-> value]
        /\ UNCHANGED <<heap, garbageDrops, proc>>

\* EnumTable::reset(key)
Reset(t, key) ==
    LET tab == tables[t]
        old == tab.values[position(key) + 1]
        id == Len(objs) + 1
    IN  /\ proc = "running"
        /\ tab.state = "live"
        /\ Len(objs) < MaxObjs
        /\ objs' = DropOld(Append(objs, [val |-> VDefault(tab.vt), drops |-> 0, t |-> t]),
                           tab.vt, old)
        /\ tables' = [tables EXCEPT ![t].values = WriteSlot(@, key, id)]
        /\ nullAccess' = nullAccess + (IF tab.ptr = NULL THEN 1 ELSE 0)
        /\ tprev' = tab.values
        /\ tlast' = [op |-> "reset", t |-> t, key |-> key, val |-> VDefault(tab.vt)]
        /\ UNCHANGED <<heap, garbageDrops, proc>>

\* Drop for EnumTable: dealloc of the buffer; the slots' values are not torn
\* down.  A release of the null pointer or with a layout other than the one
\* the block was acquired with may fault in the allocator.
Drop(t, fault) ==
    LET tab == tables[t]
        layout == DropLayout(tab.vt)
    IN  /\ proc = "running"
        /\ tab.state = "live"
        /\ fault => (IF tab.ptr = NULL THEN TRUE
                     ELSE layout # heap[tab.ptr].layout)
        /\ heap' = Dealloc(heap, tab.ptr, layout)
        /\ tables' = [tables EXCEPT ![t].state = "destroyed"]
        /\ proc' = IF fault THEN "aborted" ELSE "running"
        /\ tprev' = tab.values
        /\ tlast' = [op |-> "drop", t |-> t, key |-> VARIANTS[1], val |-> ""]
        /\ UNCHANGED <<objs, garbageDrops, nullAccess>>

\* ------------------------------------------------------------ specifications
Init == TableInit /\ MapInit

NewStep == \E vt \in VTypes, allocOk \in BOOLEAN : New(vt, allocOk)
NewFaultStep ==
    \E vt \in VTypes, allocOk \in BOOLEAN, i \in 1..len : NewFault(vt, allocOk, i)
InsertStep ==
    \E t \in 1..Len(tables), key \in Keys :
        \E value \in TypeInfo[tables[t].vt].vals : Insert(t, key, value)
ResetStep == \E t \in 1..Len(tables), key \in Keys : Reset(t, key)
DropStep == \E t \in 1..Len(tables), fault \in BOOLEAN : Drop(t, fault)

Next ==
    /\ \/ NewStep
       \/ NewFaultStep
       \/ InsertStep
       \/ ResetStep
       \/ DropStep
    /\ UNCHANGED mvars

Spec == Init /\ [][Next]_vars

MapNewStep == MapNew
MapInsertStep == \E key \in Keys, value \in MapVals : MapInsert(key, value)
MapRemoveStep == \E key \in Keys : MapRemove(key)
MapIndexWriteStep == \E key \in Keys, opt \in OptVals : MapIndexWrite(key, opt)

NextMap ==
    /\ \/ MapNewStep
       \/ MapInsertStep
       \/ MapRemoveStep
       \/ MapIndexWriteStep
    /\ UNCHANGED tvars

SpecMap == Init /\ [][NextMap]_vars

\* ------------------------------------------------------- EnumTable properties
\* get(key) on the values the target table had before the last operation
getPrev(key) == get([values |-> tprev], key)

\* the table the last operation acted on
LastTable == tables[tlast.t]

\* C1: every release of a backing buffer passes dealloc exactly the layout the
\* buffer was acquired with in new() (K::len() values of V), for every V.
C1_ReleaseLayoutMatches ==
    \A b \in 1..Len(heap) :
        \A r \in 1..Len(heap[b].releases) : heap[b].releases[r] = heap[b].layout

\* C2: right after new() the table has K::len() slots and get(k) yields
\* V::default() for every key k.
C2_NewAllDefault ==
    tlast.op = "new" =>
        /\ Len(LastTable.values) = KLen
        /\ \A k \in Keys : Val(get(LastTable, k)) = TypeInfo[LastTable.vt].dflt

C2_Witness ==
    /\ tlast.op = "new"
    /\ LastTable.vt = "Value"
    /\ LastTable.ptr # NULL
    /\ \A k \in Keys : Val(get(LastTable, k)) = "Non-empty default"

\* C3: after insert(k, v) on a live table get(k) yields v, the value the slot
\* held before is in no slot any more, and get(k') is unchanged for k' # k.
C3_InsertFrame ==
    tlast.op = "insert" =>
        /\ LastTable.state = "live"
        /\ Val(get(LastTable, tlast.key)) = tlast.val
        /\ \A i \in 1..Len(LastTable.values) :
               LastTable.values[i] # getPrev(tlast.key)
        /\ \A k \in Keys \ {tlast.key} : get(LastTable, k) = getPrev(k)

C3_Witness ==
    /\ tlast.op = "insert"
    /\ Val(getPrev(tlast.key)) # TypeInfo[LastTable.vt].dflt
    /\ Val(getPrev(tlast.key)) # tlast.val
    /\ Val(get(LastTable, tlast.key)) = tlast.val
    /\ \E k \in Keys \ {tlast.key} :
           Val(get(LastTable, k)) # TypeInfo[LastTable.vt].dflt

\* C4: after reset(k) get(k) yields V::default(), the value of slot k right
\* after new(), and get(k') is unchanged for every other key k'.
C4_ResetRoundTrip ==
    tlast.op = "reset" =>
        /\ Val(get(LastTable, tlast.key)) = TypeInfo[LastTable.vt].dflt
        /\ \A k \in Keys \ {tlast.key} : get(LastTable, k) = getPrev(k)

C4_Witness ==
    /\ tlast.op = "reset"
    /\ Val(getPrev(tlast.key)) # TypeInfo[LastTable.vt].dflt
    /\ Val(get(LastTable, tlast.key)) = TypeInfo[LastTable.vt].dflt
    /\ \E k \in Keys \ {tlast.key} :
           Val(get(LastTable, k)) # TypeInfo[LastTable.vt].dflt

C9_AllocFailureAborts ==
    /\ nullAccess = 0
    /\ \A t \in 1..Len(tables) : tables[t].ptr # NULL

\* C10: a teardown only runs on a slot that holds an initialized V, no value
\* is torn down twice, a value that was overwritten has been torn down, and
\* every value placed in a slot of a destroyed table has been torn down once.
C10_TeardownBalanced ==
    /\ garbageDrops = 0
    /\ \A i \in 1..Len(objs) : objs[i].drops <= 1
    /\ proc = "running" =>
           \A i \in 1..Len(objs) :
               LET tab == tables[objs[i].t]
               IN  TypeInfo[tab.vt].needsDrop =>
                       /\ (\A s \in 1..Len(tab.values) : tab.values[s] # i)
                              => objs[i].drops = 1
                       /\ tab.state = "destroyed" => objs[i].drops = 1

\* --------------------------------------------------------- EnumMap properties
\* C5: a constructed map always has exactly as many slots as K has variants,
\* and right after new() get(k) is None for every key k.
C5_MapNewAllNone ==
    mstate = "live" =>
        /\ Len(mvalues) = KLen
        /\ mlast.op = "new" => \A k \in Keys : MapGet(mvalues, k) = None

C5_Witness ==
    /\ mstate = "live"
    /\ mlast.op = "new"
    /\ Len(mvalues) = KLen
    /\ \A k \in Keys : MapGet(mvalues, k) = None

\* C6: after insert(k, v) get(k) yields Some(v), whatever the slot held, and
\* get(k') is unchanged for every other key k'.
C6_MapInsertFrame ==
    mlast.op = "insert" =>
        /\ MapGet(mvalues, mlast.key) = mlast.opt
        /\ mlast.opt # None
        /\ \A k \in Keys \ {mlast.key} : MapGet(mvalues, k) = MapGet(mprev, k)

C6_Witness ==
    /\ mlast.op = "insert"
    /\ MapGet(mprev, mlast.key) # None
    /\ MapGet(mprev, mlast.key) # mlast.opt
    /\ MapGet(mvalues, mlast.key) = mlast.opt
    /\ \E k \in Keys \ {mlast.key} : MapGet(mvalues, k) # None

\* C7: after remove(k) get(k) is None; a second remove(k) leaves the state as
\* it is; remove of an absent key changes nothing; and map[k] = None leaves
\* the state remove(k) would.
C7_MapRemove ==
    /\ mlast.op = "remove" =>
           /\ MapGet(mvalues, mlast.key) = None
           /\ \A k \in Keys \ {mlast.key} : MapGet(mvalues, k) = MapGet(mprev, k)
           /\ MapRemoveValues(mvalues, mlast.key) = mvalues
           /\ MapGet(mprev, mlast.key) = None => mvalues = mprev
    /\ (mlast.op = "index_write" /\ mlast.opt = None) =>
           /\ MapGet(mvalues, mlast.key) = None
           /\ mvalues = MapRemoveValues(mprev, mlast.key)

C7_Witness ==
    /\ mlast.op = "remove"
    /\ MapGet(mprev, mlast.key) # None
    /\ MapGet(mvalues, mlast.key) = None
    /\ \E k \in Keys \ {mlast.key} : MapGet(mvalues, k) # None

====
